---- MODULE Spec2Model ----
(***************************************************************************)
(* Blue Carbon MRV registry: the two Streamlit deployments app.py (one     *)
(* registry table, image and IoT-CSV uploads, a separate "issue simulated  *)
(* tx" button) and app1.py (projects / credits / complaints tables, image  *)
(* uploads, the hash computed when a row is created).                      *)
(*                                                                         *)
(* Numbers.  Readings and luminances are integers and every comparison the *)
(* code makes on a float (variance < 50, |z| > 3, int(x)) is made here on  *)
(* the exact rational, cross-multiplied; float rounding is not modelled.   *)
(* An image is its size and a row of equally sized cells, each of one      *)
(* colour: ndarray.var() does not depend on where a pixel is, so the       *)
(* variance over the pixels is the variance over the cells.                *)
(***************************************************************************)
EXTENDS Integers, Sequences, FiniteSets, TLC

VARIABLES
    app,            \* which script this process runs: "app.py" or "app1.py"
    now,            \* wall clock, one tick per script run
    registry,       \* app.py: rows of table registry, in id order
    project_name,   \* app.py: the sidebar text input
    uploaded_file,  \* the file held by st.file_uploader (NoFile when empty)
    ui,             \* what the last script run reported
    projects,       \* app1.py: rows of table projects
    credits,        \* app1.py: rows of table credits
    complaints,     \* app1.py: rows of table complaints
    choice,         \* app1.py: sidebar page
    selected,       \* app1.py: project id chosen in the selectbox (0: none)
    img,            \* validator specification: the image under test
    img_result,     \* validator specification: what anomaly_detection_image returned
    df,             \* IoT specification: the table under test
    added,          \* IoT specification: readings appended to the base series
    iot_result,     \* IoT specification: what anomaly_detection_iot returned
    credit_result   \* IoT specification: what calculate_credits_iot returned

vars == <<app, now, registry, project_name, uploaded_file, ui, projects, credits,
          complaints, choice, selected, img, img_result, df, added, iot_result,
          credit_result>>

appVars == <<app, now, registry, project_name, uploaded_file, ui, projects, credits,
             complaints, choice, selected>>
imgVars == <<img, img_result>>
iotVars == <<df, added, iot_result, credit_result>>

(***************************************************************************)
(* Bounds of the model.                                                    *)
(***************************************************************************)
MaxTime == 6
MaxAdded == 4

(***************************************************************************)
(* Arithmetic helpers.                                                     *)
(***************************************************************************)
Max(a, b) == IF a >= b THEN a ELSE b

Abs(a) == IF a >= 0 THEN a ELSE -a

\* Python int(a / b) for b > 0: truncation toward zero.
PyInt(a, b) == IF a >= 0 THEN a \div b ELSE -((-a) \div b)

\* round-half-even of a / b for a >= 0, b > 0 (Python round and "%.nf").
RoundHalfEven(a, b) ==
    LET q == a \div b
        r == a % b
    IN  IF 2 * r < b THEN q
        ELSE IF 2 * r > b THEN q + 1
        ELSE IF q % 2 = 0 THEN q ELSE q + 1

RECURSIVE SumSeq(_)
SumSeq(s) == IF s = <<>> THEN 0 ELSE Head(s) + SumSeq(Tail(s))

RECURSIVE SumSq(_)
SumSq(s) == IF s = <<>> THEN 0 ELSE Head(s) * Head(s) + SumSq(Tail(s))

Range(s) == {s[i] : i \in 1..Len(s)}

(***************************************************************************)
(* Simulated ledger hash.  NULL is SQL NULL; a digest is a hex string.     *)
(***************************************************************************)
NULL == "<NULL>"

HexDigests == <<"3fa9c1", "b07e42", "5d18aa", "e6c903", "91f2d7">>

\* hashlib.sha256(seed).hexdigest(): a fixed non-empty hex string per seed.
Sha256Hex(seed) == HexDigests[(SumSeq(seed) % Len(HexDigests)) + 1]

\* app.py: payload is record_uuid | time.time()
simulate_tx_hash(record_uuid, t) == Sha256Hex(<<7 * record_uuid, 13 * t>>)

\* app1.py: the seed is the caller's concatenation uid + content + timestamp
simulate_tx_hash1(uid, content, ts) == Sha256Hex(<<7 * uid, 3 * content, 13 * ts>>)

(***************************************************************************)
(* Uploaded artifacts.                                                     *)
(***************************************************************************)
NoFile == [kind |-> "none"]

\* A file whose bytes neither pd.read_csv nor Image.open can decode.
CorruptCsv == [kind |-> "csv", decodable |-> FALSE]
CorruptImage == [kind |-> "image", decodable |-> FALSE]

Gray(v) == <<v, v, v>>

Palette == {Gray(100), Gray(114), Gray(115), Gray(130), <<30, 160, 60>>}

Sizes == {<<200, 200>>, <<100, 100>>, <<99, 101>>, <<102, 100>>, <<50, 50>>}

CellRows == UNION {[1..k -> Palette] : k \in 1..3}

MkImage(w, h, cells) ==
    [kind |-> "image", decodable |-> TRUE, w |-> w, h |-> h, cells |-> cells]

\* Every image of the bounded family: the cells split the pixels evenly.
Images ==
    {MkImage(sz[1], sz[2], c) : <<sz, c>> \in
        {p \in Sizes \X CellRows : (p[1][1] * p[1][2]) % Len(p[2]) = 0}}

\* PIL's RGB -> L: (R*19595 + G*38470 + B*7471 + 0x8000) >> 16
ConvertL(rgb) == (rgb[1] * 19595 + rgb[2] * 38470 + rgb[3] * 7471 + 32768) \div 65536

Luminance(image) == [i \in 1..Len(image.cells) |-> ConvertL(image.cells[i])]

\* ndarray.var(): mean((x - mean(x))^2) as the fraction num / den.
Variance(image) ==
    LET L == Luminance(image)
        k == Len(L)
    IN  [num |-> k * SumSq(L) - SumSeq(L) * SumSeq(L), den |-> k * k]

VarianceBelow(image, t) == Variance(image).num < t * Variance(image).den

\* f"{variance:.1f}", in tenths
VarianceTenths(image) == RoundHalfEven(10 * Variance(image).num, Variance(image).den)

VarianceThreshold == 50
MinPixels == 10000

\* mutant: "<=" for "<", an image of variance exactly 50 is rejected
anomaly_detection_image_le(image) ==
    IF Variance(image).num <= VarianceThreshold * Variance(image).den
    THEN [ok |-> FALSE,
          msg |-> [text |-> "Low pixel variance", arg |-> VarianceTenths(image)]]
    ELSE IF image.w * image.h < MinPixels
    THEN [ok |-> FALSE,
          msg |-> [text |-> "Small image", arg |-> image.w * image.h]]
    ELSE [ok |-> TRUE,
          msg |-> [text |-> "Image passes basic checks", arg |-> VarianceTenths(image)]]

anomaly_detection_image(image) ==
    IF VarianceBelow(image, VarianceThreshold)
    THEN [ok |-> FALSE,
          msg |-> [text |-> "Low pixel variance", arg |-> VarianceTenths(image)]]
    ELSE IF image.w * image.h < MinPixels
    THEN [ok |-> FALSE,
          msg |-> [text |-> "Small image", arg |-> image.w * image.h]]
    ELSE [ok |-> TRUE,
          msg |-> [text |-> "Image passes basic checks", arg |-> VarianceTenths(image)]]

\* app.py: max(1, int(w*h / 200000.0 * 10))
calculate_credits_image(image) == Max(1, PyInt(image.w * image.h * 10, 200000))

\* app1.py: (round(variance / 100.0, 2), variance); credits in hundredths,
\* the variance as formatted by f"{variance:.2f}", in hundredths.
calculate_carbon_credits(image) ==
    [credits |-> RoundHalfEven(Variance(image).num, Variance(image).den),
     variance |-> RoundHalfEven(100 * Variance(image).num, Variance(image).den)]


(***************************************************************************)
(* IoT tables (the DataFrame pd.read_csv returns).                         *)
(*   has_value : the table has a column named 'value'                      *)
(*   numeric   : every cell of that column converts to float               *)
(*   value     : the column; <<v>> is a reading, <<>> a missing cell (NaN) *)
(*   ts        : [kind |-> "absent"], [kind |-> "unparseable"] (to_datetime*)
(*               raises) or [kind |-> "parsed", times |-> ...], the parsed *)
(*               column in seconds, <<t>> a timestamp and <<>> NaT; only   *)
(*               its max and min are read.                                 *)
(***************************************************************************)
MkTable(has_value, numeric, value, ts) ==
    [kind |-> "csv", decodable |-> TRUE, has_value |-> has_value,
     numeric |-> numeric, value |-> value, ts |-> ts]

TsAbsent == [kind |-> "absent"]
TsUnparseable == [kind |-> "unparseable"]
TsParsed(times) == [kind |-> "parsed", times |-> times]

\* Series.dropna(): the readings that are present, as integers
DropNa(col) ==
    LET present == SelectSeq(col, LAMBDA c : Len(c) = 1)
    IN  [i \in 1..Len(present) |-> present[i][1]]

\* |z| > 3 for reading x of vals, z = (x - mean) / (std if std > 0 else 1) and
\* std the sample standard deviation (pandas Series.std, ddof = 1):
\*   (x - S/n)^2 > 9 * (n*Q - S^2) / (n * (n-1)),  S = sum, Q = sum of squares.
IsAnomaly(x, vals) ==
    LET n == Len(vals)
        S == SumSeq(vals)
        Q == SumSq(vals)
        D == n * Q - S * S
    IN  IF D > 0
        THEN (n * x - S) * (n * x - S) * (n - 1) > 9 * n * D
        ELSE Abs(n * x - S) > 3 * n

\* (abs(zscores) > 3).sum()
Anomalies(vals) == Cardinality({i \in 1..Len(vals) : IsAnomaly(vals[i], vals)})

\* mutant: no tolerance, any anomalous reading rejects the series
AnomalyBudgetNone(n) == 0

\* max(1, len(vals)//10)
AnomalyBudget(n) == Max(1, n \div 10)

\* vals.nunique()
NUnique(vals) == Cardinality(Range(vals))

AnomalyMsg(text, arg) == [text |-> text, arg |-> arg]

\* Returns [raised, ok, msg]; raised: astype(float) threw ValueError.
anomaly_detection_iot(t) ==
    IF ~t.has_value
    THEN [raised |-> FALSE, ok |-> FALSE,
          msg |-> AnomalyMsg("CSV missing required 'value' column.", 0)]
    ELSE IF ~t.numeric
    THEN [raised |-> TRUE, ok |-> FALSE, msg |-> AnomalyMsg("ValueError", 0)]
    ELSE LET vals == DropNa(t.value)
         IN  IF Len(vals) < 3
             THEN [raised |-> FALSE, ok |-> FALSE,
                   msg |-> AnomalyMsg("Not enough IoT readings.", 0)]
             ELSE IF Anomalies(vals) > AnomalyBudget(Len(vals))
             THEN [raised |-> FALSE, ok |-> FALSE,
                   msg |-> AnomalyMsg("statistical anomalies detected", Anomalies(vals))]
             ELSE IF NUnique(vals) <= 2
             THEN [raised |-> FALSE, ok |-> FALSE,
                   msg |-> AnomalyMsg("Suspiciously flat sensor data", 0)]
             ELSE [raised |-> FALSE, ok |-> TRUE,
                   msg |-> AnomalyMsg("IoT readings look OK", Anomalies(vals))]

SeqMax(s) == CHOOSE x \in Range(s) : \A y \in Range(s) : y <= x
SeqMin(s) == CHOOSE x \in Range(s) : \A y \in Range(s) : x <= y

SecondsPerHour == 3600

\* duration_hours, in seconds: [nan |-> TRUE] when every timestamp is NaT
\* (max - min is NaT, NaT.total_seconds() is nan, and max(nan, 1.0) is nan).
DurationSeconds(ts) ==
    IF ts.kind = "parsed"
    THEN LET times == DropNa(ts.times)
         IN  IF times = <<>>
             THEN [nan |-> TRUE, sec |-> 0]
             ELSE [nan |-> FALSE,
                   sec |-> Max(SeqMax(times) - SeqMin(times), SecondsPerHour)]
    ELSE [nan |-> FALSE, sec |-> SecondsPerHour]

\* Returns [raised, credits]; raised: df['value'] threw KeyError, mean() threw
\* on a non-numeric column, or int() threw ValueError on nan.
calculate_credits_iot(t) ==
    IF ~t.has_value \/ ~t.numeric
    THEN [raised |-> TRUE, credits |-> 0]
    ELSE LET vals == DropNa(t.value)
             d == DurationSeconds(t.ts)
         IN  IF vals = <<>> \/ d.nan
             THEN [raised |-> TRUE, credits |-> 0]
             ELSE [raised |-> FALSE,
                   credits |-> Max(1, PyInt(SumSeq(vals) * d.sec,
                                            Len(vals) * SecondsPerHour * 10))]


(***************************************************************************)
(* app.py: the registry table and the script's handlers.                   *)
(***************************************************************************)
ProjectNames == {"Demo Mangrove Project", "Sundarbans Pilot"}

\* Files the user can put in app.py's uploader (png/jpg/jpeg/csv).
GrayImage == MkImage(200, 200, <<Gray(128)>>)
GoodImage == MkImage(200, 200, <<Gray(100), Gray(130)>>)
TinyImage == MkImage(50, 50, <<Gray(100), Gray(130)>>)
GoodCsv == MkTable(TRUE, TRUE, <<<<20>>, <<30>>, <<>>, <<45>>>>, TsAbsent)
FlatCsv == MkTable(TRUE, TRUE, <<<<10>>, <<10>>, <<11>>, <<10>>>>, TsAbsent)
NoValueCsv == MkTable(FALSE, TRUE, <<>>, TsAbsent)
TextCsv == MkTable(TRUE, FALSE, <<>>, TsAbsent)
BlankTimeCsv == MkTable(TRUE, TRUE, <<<<20>>, <<30>>, <<40>>>>, TsParsed(<<<<>>, <<>>, <<>>>>))

AppFiles == {GrayImage, GoodImage, TinyImage, CorruptImage,
             GoodCsv, FlatCsv, NoValueCsv, TextCsv, BlankTimeCsv, CorruptCsv}

\* str(uuid.uuid4()): a value not generated before
Uuid4(table) == Len(table) + 1

\* INSERT INTO registry ...; id is AUTOINCREMENT
save_record(reg, t, pname, data_type, n_credits, mrv_status, mrv_msg, tx_hash) ==
    Append(reg, [id |-> Len(reg) + 1, record_uuid |-> Uuid4(reg), created_at |-> t,
                 project_name |-> pname, data_type |-> data_type,
                 credits |-> n_credits, mrv_status |-> mrv_status,
                 mrv_msg |-> mrv_msg, tx_hash |-> tx_hash])

Report(run, msg) == [run |-> run, msg |-> msg]

\* A script run: the clock moves on; app1.py's state is not touched.
AppRun ==
    /\ app = "app.py"
    /\ now < MaxTime
    /\ now' = now + 1
    /\ UNCHANGED <<app, projects, credits, complaints, choice, selected>>
    /\ UNCHANGED <<imgVars, iotVars>>

\* The user puts a file in the uploader, or clears it; no button is pressed.
ChooseFile(f) ==
    /\ AppRun
    /\ f # uploaded_file
    /\ uploaded_file' = f
    /\ ui' = Report("render", "registry shown")
    /\ UNCHANGED <<registry, project_name>>

\* The user edits the sidebar's project name.
EditProjectName(nm) ==
    /\ AppRun
    /\ nm # project_name
    /\ project_name' = nm
    /\ ui' = Report("render", "registry shown")
    /\ UNCHANGED <<registry, uploaded_file>>

\* mutant: the rejected branch stores the estimate instead of 0
StoreVerdictKeepsCredits(reg, t, pname, data_type, v, n_credits) ==
    IF v.ok
    THEN [reg |-> save_record(reg, t, pname, data_type, n_credits, "verified", v.msg, NULL),
          msg |-> "Verified"]
    ELSE [reg |-> save_record(reg, t, pname, data_type, n_credits, "rejected", v.msg, NULL),
          msg |-> "Data rejected"]

\* if ok: save_record(..., credits, "verified", msg, None)
\* else:  credits = 0; save_record(..., credits, "rejected", msg, None)
StoreVerdict(reg, t, pname, data_type, v, n_credits) ==
    IF v.ok
    THEN [reg |-> save_record(reg, t, pname, data_type, n_credits, "verified", v.msg, NULL),
          msg |-> "Verified"]
    ELSE [reg |-> save_record(reg, t, pname, data_type, 0, "rejected", v.msg, NULL),
          msg |-> "Data rejected"]

\* The handler once the file is decoded: validate, estimate on a pass, store.
\* An exception nothing catches ends the run with nothing stored.
VerifyDecoded(reg, f, pname, t) ==
    IF f.kind = "csv"
    THEN LET v == anomaly_detection_iot(f)
             c == calculate_credits_iot(f)
         IN  IF v.raised \/ (v.ok /\ c.raised)
             THEN [reg |-> reg, msg |-> "uncaught exception"]
             ELSE StoreVerdict(reg, t, pname, "iot_csv", v, c.credits)
    ELSE StoreVerdict(reg, t, pname, "image", anomaly_detection_image(f),
                      calculate_credits_image(f))

\* mutant: a file that cannot be decoded is recorded as rejected
VerifyOutcomeStoresUndecodable(reg, f, pname, t) ==
    IF f = NoFile
    THEN [reg |-> reg, msg |-> "Please upload a file first."]
    ELSE IF ~f.decodable
    THEN [reg |-> save_record(reg, t, pname, f.kind, 0, "rejected",
                              AnomalyMsg("undecodable", 0), NULL),
          msg |-> "Data rejected"]
    ELSE VerifyDecoded(reg, f, pname, t)

\* What "Verify & Calculate" does to the table and reports, for file f.
VerifyOutcome(reg, f, pname, t) ==
    IF f = NoFile
    THEN [reg |-> reg, msg |-> "Please upload a file first."]
    ELSE IF ~f.decodable
    THEN [reg |-> reg,
          msg |-> IF f.kind = "csv" THEN "Failed to parse CSV" ELSE "Could not open image"]
    ELSE VerifyDecoded(reg, f, pname, t)

\* The "Verify & Calculate" button.
VerifyAndCalculate ==
    /\ AppRun
    /\ LET o == VerifyOutcome(registry, uploaded_file, project_name, now')
       IN  /\ registry' = o.reg
           /\ ui' = Report("verify", o.msg)
    /\ UNCHANGED <<project_name, uploaded_file>>

\* mutant: the filter forgets the hash, an issued record is picked again
UnissuedAnyHash(reg) == {i \in 1..Len(reg) : reg[i].mrv_status = "verified"}

\* mutant: the filter forgets the status, a rejected record is picked
UnissuedAnyStatus(reg) ==
    {i \in 1..Len(reg) : reg[i].tx_hash = NULL \/ reg[i].tx_hash = ""}

\* WHERE mrv_status='verified' AND (tx_hash IS NULL OR tx_hash='')
Unissued(reg) ==
    {i \in 1..Len(reg) : reg[i].mrv_status = "verified"
                         /\ (reg[i].tx_hash = NULL \/ reg[i].tx_hash = "")}

\* mutant: ORDER BY id ASC, the oldest candidate is picked
EarliestOf(rows) == CHOOSE i \in rows : \A j \in rows : i <= j

\* ORDER BY id DESC LIMIT 1
LatestOf(rows) == CHOOSE i \in rows : \A j \in rows : j <= i

\* The "Issue simulated tx" button.
IssueTx ==
    /\ AppRun
    /\ IF Unissued(registry) = {}
       THEN /\ registry' = registry
            /\ ui' = Report("issue", "No verified unissued record found.")
       ELSE LET i == LatestOf(Unissued(registry))
            IN  /\ registry' = [registry EXCEPT ![i].tx_hash =
                                   simulate_tx_hash(registry[i].record_uuid, now')]
                /\ ui' = Report("issue", "Simulated tx issued")
    /\ UNCHANGED <<project_name, uploaded_file>>

NextApp ==
    \/ \E f \in AppFiles \cup {NoFile} : ChooseFile(f)
    \/ \E nm \in ProjectNames : EditProjectName(nm)
    \/ VerifyAndCalculate
    \/ IssueTx


(***************************************************************************)
(* app1.py: projects, credits and complaints, and the pages of the script. *)
(***************************************************************************)
Pages == {"Project Registry", "Upload Data & Verify", "Carbon Credit Registry",
          "Complaint Registry"}

\* Files the user can put in app1.py's uploader (jpg/png/jpeg).
App1Files == {GrayImage, GoodImage, CorruptImage}

ComplaintTexts == {"", "Illegal clearing"}

\* str(uuid.uuid4()) in app1.py: a value not generated before in any table
Uuid4B(ps, cs, ms) == Len(ps) + Len(cs) + Len(ms) + 1

add_project(ps, uid, name, t) ==
    Append(ps, [id |-> Len(ps) + 1, uuid |-> uid, name |-> name, created_at |-> t,
                tx_hash |-> simulate_tx_hash1(uid, 0, t)])

\* mutant: the row is inserted without a hash, to be issued later
add_credit_unissued(cs, uid, project_id, data_type, n_credits, status, notes, t) ==
    Append(cs, [id |-> Len(cs) + 1, uuid |-> uid, project_id |-> project_id,
                data_type |-> data_type, credits |-> n_credits, status |-> status,
                notes |-> notes, timestamp |-> t, tx_hash |-> NULL])

add_credit(cs, uid, project_id, data_type, n_credits, status, notes, t) ==
    Append(cs, [id |-> Len(cs) + 1, uuid |-> uid, project_id |-> project_id,
                data_type |-> data_type, credits |-> n_credits, status |-> status,
                notes |-> notes, timestamp |-> t,
                tx_hash |-> simulate_tx_hash1(uid, n_credits, t)])

add_complaint(ms, uid, project_id, complaint, t) ==
    Append(ms, [id |-> Len(ms) + 1, uuid |-> uid, project_id |-> project_id,
                complaint |-> complaint, status |-> "pending", created_at |-> t,
                tx_hash |-> simulate_tx_hash1(uid, Len(complaint), t)])

\* list_projects: ORDER BY id DESC; the selectbox starts on its first option
DefaultProject(ps) == Len(ps)

\* A script run of app1.py; app.py's table is not touched.
App1Run ==
    /\ app = "app1.py"
    /\ now < MaxTime
    /\ now' = now + 1
    /\ UNCHANGED <<app, registry, project_name>>
    /\ UNCHANGED <<imgVars, iotVars>>

\* The sidebar radio: another page is shown. A widget that is not drawn loses
\* its state, so the uploader comes back empty and the selectbox on its default.
Navigate(page) ==
    /\ App1Run
    /\ page # choice
    /\ choice' = page
    /\ uploaded_file' = NoFile
    /\ selected' = IF page \in {"Upload Data & Verify", "Complaint Registry"}
                   THEN DefaultProject(projects) ELSE 0
    /\ ui' = Report("render", page)
    /\ UNCHANGED <<projects, credits, complaints>>

\* "Register Project": if submit and name
RegisterProject(name) ==
    /\ App1Run
    /\ choice = "Project Registry"
    /\ IF name # ""
       THEN /\ projects' = add_project(projects, Uuid4B(projects, credits, complaints),
                                       name, now')
            /\ ui' = Report("register", "Project registered")
       ELSE /\ projects' = projects
            /\ ui' = Report("register", "nothing submitted")
    /\ UNCHANGED <<credits, complaints, choice, selected, uploaded_file>>

\* The body of the "Upload Data & Verify" page for the file in the uploader:
\* no button guards it, every run of the script with a file present executes it.
UploadPage(cs, f, project_id, uid, t) ==
    IF f = NoFile
    THEN [credits |-> cs, msg |-> "waiting for a file"]
    ELSE IF ~f.decodable
    THEN [credits |-> cs, msg |-> "uncaught exception"]
    ELSE LET c == calculate_carbon_credits(f)
         IN  [credits |-> add_credit(cs, uid, project_id, "image", c.credits,
                                     "verified", c.variance, t),
              msg |-> "Data verified & credits issued"]

\* The user puts a file in the uploader (or clears it): the script runs.
UploadProof(f) ==
    /\ App1Run
    /\ choice = "Upload Data & Verify"
    /\ projects # <<>>
    /\ f # uploaded_file
    /\ uploaded_file' = f
    /\ LET o == UploadPage(credits, f, selected, Uuid4B(projects, credits, complaints), now')
       IN  /\ credits' = o.credits
           /\ ui' = Report("upload", o.msg)
    /\ UNCHANGED <<projects, complaints, choice, selected>>

\* The user picks another project in the selectbox: the script runs again,
\* the file still in the uploader.
SelectProject(p) ==
    /\ App1Run
    /\ choice = "Upload Data & Verify"
    /\ p \in 1..Len(projects)
    /\ p # selected
    /\ selected' = p
    /\ LET o == UploadPage(credits, uploaded_file, p,
                           Uuid4B(projects, credits, complaints), now')
       IN  /\ credits' = o.credits
           /\ ui' = Report("rerun", o.msg)
    /\ UNCHANGED <<projects, complaints, choice, uploaded_file>>

\* "Submit Complaint": if submit and complaint_text
SubmitComplaint(p, text) ==
    /\ App1Run
    /\ choice = "Complaint Registry"
    /\ p \in 1..Len(projects)
    /\ IF text # ""
       THEN /\ complaints' = add_complaint(complaints,
                                           Uuid4B(projects, credits, complaints),
                                           p, text, now')
            /\ ui' = Report("complaint", "Complaint logged")
       ELSE /\ complaints' = complaints
            /\ ui' = Report("complaint", "nothing submitted")
    /\ selected' = p
    /\ UNCHANGED <<projects, credits, choice, uploaded_file>>

NextApp1 ==
    \/ \E page \in Pages : Navigate(page)
    \/ \E name \in {"", "Mangrove A"} : RegisterProject(name)
    \/ \E f \in App1Files \cup {NoFile} : UploadProof(f)
    \/ \E p \in 1..MaxTime : SelectProject(p)
    \/ \E p \in 1..MaxTime, text \in ComplaintTexts : SubmitComplaint(p, text)

(***************************************************************************)
(* The deployed process runs one of the two scripts.                       *)
(***************************************************************************)
\* Nothing has been validated or estimated yet.
NotCalled == [called |-> FALSE]

Init ==
    /\ app \in {"app.py", "app1.py"}
    /\ now = 0
    /\ registry = <<>>
    /\ project_name = "Demo Mangrove Project"
    /\ uploaded_file = NoFile
    /\ ui = Report("render", "start")
    /\ projects = <<>>
    /\ credits = <<>>
    /\ complaints = <<>>
    /\ choice = "Project Registry"
    /\ selected = 0
    /\ img = NoFile
    /\ img_result = NotCalled
    /\ df = NoFile
    /\ added = <<>>
    /\ iot_result = NotCalled
    /\ credit_result = NotCalled

Next == NextApp \/ NextApp1

Spec == Init /\ [][Next]_vars


(***************************************************************************)
(* anomaly_detection_image on its own: any image of the bounded family is  *)
(* handed to the validator.                                                *)
(***************************************************************************)
Called(result) == [called |-> TRUE, result |-> result]

InitImage ==
    /\ app = "anomaly_detection_image"
    /\ now = 0
    /\ registry = <<>>
    /\ project_name = "Demo Mangrove Project"
    /\ uploaded_file = NoFile
    /\ ui = Report("render", "start")
    /\ projects = <<>>
    /\ credits = <<>>
    /\ complaints = <<>>
    /\ choice = "Project Registry"
    /\ selected = 0
    /\ img \in Images
    /\ img_result = NotCalled
    /\ df = NoFile
    /\ added = <<>>
    /\ iot_result = NotCalled
    /\ credit_result = NotCalled

ValidateImage ==
    /\ ~img_result.called
    /\ img_result' = Called(anomaly_detection_image(img))
    /\ UNCHANGED <<img, appVars, iotVars>>

NextImage == ValidateImage

SpecImage == InitImage /\ [][NextImage]_vars

(***************************************************************************)
(* anomaly_detection_iot and calculate_credits_iot on their own: a table   *)
(* of the bounded family, readings appended to it, and the two functions   *)
(* applied to the result.                                                  *)
(***************************************************************************)
\* n readings 9, 10, 11 in turn: mean about 10, sample std below 1
TightSeries(n) == [i \in 1..n |-> <<10 + ((i % 3) - 1)>>]

ValueColumns ==
    {TightSeries(30), TightSeries(34),
     <<<<20>>, <<30>>, <<>>, <<45>>>>,
     <<<<-50>>, <<-20>>, <<-35>>>>,
     <<<<100>>, <<250>>, <<400>>>>,
     <<<<7>>, <<7>>, <<7>>>>,
     <<<<>>, <<>>>>}

TimestampColumns ==
    {TsAbsent, TsUnparseable,
     TsParsed(<<<<0>>, <<1800>>>>),
     TsParsed(<<<<5000>>, <<5000>>>>),
     TsParsed(<<<<7200>>, <<0>>>>),
     TsParsed(<<<<0>>, <<>>, <<9000>>>>),
     TsParsed(<<<<>>, <<>>>>)}

IotTables ==
    {MkTable(TRUE, TRUE, v, ts) : v \in ValueColumns, ts \in TimestampColumns}
    \cup {NoValueCsv, TextCsv}

\* Readings far from a tight series around 10.
FarReadings == {-10, 30}

InitIot ==
    /\ app = "anomaly_detection_iot"
    /\ now = 0
    /\ registry = <<>>
    /\ project_name = "Demo Mangrove Project"
    /\ uploaded_file = NoFile
    /\ ui = Report("render", "start")
    /\ projects = <<>>
    /\ credits = <<>>
    /\ complaints = <<>>
    /\ choice = "Project Registry"
    /\ selected = 0
    /\ img = NoFile
    /\ img_result = NotCalled
    /\ df \in IotTables
    /\ added = <<>>
    /\ iot_result = NotCalled
    /\ credit_result = NotCalled

\* One more row in the CSV before it is uploaded.
AddReading(x) ==
    /\ df.has_value /\ df.numeric
    /\ ~iot_result.called /\ ~credit_result.called
    /\ Len(added) < MaxAdded
    /\ df' = [df EXCEPT !.value = Append(@, <<x>>)]
    /\ added' = Append(added, x)
    /\ UNCHANGED <<iot_result, credit_result, appVars, imgVars>>

ValidateIot ==
    /\ ~iot_result.called
    /\ iot_result' = Called(anomaly_detection_iot(df))
    /\ UNCHANGED <<df, added, credit_result, appVars, imgVars>>

EstimateIot ==
    /\ ~credit_result.called
    /\ credit_result' = Called(calculate_credits_iot(df))
    /\ UNCHANGED <<df, added, iot_result, appVars, imgVars>>

NextIot ==
    \/ \E x \in FarReadings : AddReading(x)
    \/ ValidateIot
    \/ EstimateIot

SpecIot == InitIot /\ [][NextIot]_vars


(***************************************************************************)
(* Properties of the registry (specification Spec).                        *)
(***************************************************************************)
HasHash(row) == row.tx_hash # NULL /\ row.tx_hash # ""

\* Every row of `before` that has a hash is still in `after` with that hash.
HashesKept(before, after) ==
    \A i \in 1..Len(before) :
        HasHash(before[i]) =>
            /\ i <= Len(after)
            /\ after[i].tx_hash = before[i].tx_hash

\* The rows a step inserted into a table.
NewRows(before, after) == {after[i] : i \in (Len(before) + 1)..Len(after)}

\* C1: once a record's ledger hash is non-empty it keeps that exact value:
\* no step, a later issue action included, recomputes or overwrites it.
C1_HashNeverReassigned ==
    [][/\ HashesKept(registry, registry')
       /\ HashesKept(projects, projects')
       /\ HashesKept(credits, credits')
       /\ HashesKept(complaints, complaints')]_vars

\* C1 witness: the issue action has run on a registry that holds an issued
\* record and found nothing left to issue.
C1_Witness ==
    /\ ui = Report("issue", "No verified unissued record found.")
    /\ \E i \in 1..Len(registry) : HasHash(registry[i])

\* C2 as stated: right after any create operation, save_record of app.py and
\* add_project, add_credit, add_complaint of app1.py alike, the inserted row
\* has no ledger hash.
C2_NoHashAtCreation ==
    [][\A row \in NewRows(registry, registry') \cup NewRows(projects, projects')
                  \cup NewRows(credits, credits') \cup NewRows(complaints, complaints') :
           ~HasHash(row)]_vars

\* C2 amended: a row app.py's save_record inserts has no ledger hash (the
\* issue action alone assigns one); a row app1.py's add_project, add_credit
\* or add_complaint inserts carries its ledger hash from creation.
C2_HashAtCreationByScript ==
    [][/\ \A row \in NewRows(registry, registry') : row.tx_hash = NULL
       /\ \A row \in NewRows(projects, projects') \cup NewRows(credits, credits')
                     \cup NewRows(complaints, complaints') : HasHash(row)]_vars

\* C2 witness: Verify & Calculate has just stored a record, without a hash.
C2_Witness ==
    /\ ui \in {Report("verify", "Verified"), Report("verify", "Data rejected")}
    /\ registry # <<>>
    /\ registry[Len(registry)].tx_hash = NULL
    /\ registry[Len(registry)].created_at = now

FailureReasons ==
    {"Low pixel variance", "Small image", "CSV missing required 'value' column.",
     "Not enough IoT readings.", "statistical anomalies detected",
     "Suspiciously flat sensor data"}

\* C3: every stored credit record whose status is 'rejected' has quantity 0
\* and a validator's failure reason as its note.
C3_RejectedHasZeroCredits ==
    /\ \A i \in 1..Len(registry) :
           registry[i].mrv_status = "rejected" =>
               /\ registry[i].credits = 0
               /\ registry[i].mrv_msg.text \in FailureReasons
    /\ \A i \in 1..Len(credits) :
           credits[i].status = "rejected" => credits[i].credits = 0

\* C3 witness: a rejected record is in the store.
C3_Witness == \E i \in 1..Len(registry) : registry[i].mrv_status = "rejected"

\* The step ran an upload-and-verify action on the file in the uploader.
IsVerifyStep(run) == run \in {"verify", "upload", "rerun"}

\* C4: every record an upload-and-verify action stores for an image, at either
\* entry point, is 'verified' exactly when anomaly_detection_image passes the
\* image; one whose variance is below 50 is stored rejected with 0 credits.
C4_StatusFollowsValidator ==
    [][IsVerifyStep(ui'.run) /\ uploaded_file'.kind = "image" =>
         /\ \A row \in NewRows(registry, registry') :
                /\ row.mrv_status = "verified" <=> anomaly_detection_image(uploaded_file').ok
                /\ VarianceBelow(uploaded_file', VarianceThreshold) =>
                       row.mrv_status = "rejected" /\ row.credits = 0
         /\ \A row \in NewRows(credits, credits') :
                /\ row.status = "verified" <=> anomaly_detection_image(uploaded_file').ok
                /\ VarianceBelow(uploaded_file', VarianceThreshold) =>
                       row.status = "rejected" /\ row.credits = 0]_vars

\* C5: an issue action in a state with no record that is 'verified' and has a
\* null or empty hash reports the informational message and changes no row.
C5_IssueWithoutCandidateIsNoOp ==
    [][(/\ ui'.run = "issue"
        /\ now' # now
        /\ ~\E i \in 1..Len(registry) :
               registry[i].mrv_status = "verified" /\ ~HasHash(registry[i]))
       => /\ registry' = registry
          /\ ui'.msg = "No verified unissued record found."]_vars

\* C5 witness: the issue action found nothing to issue in a store that holds
\* a rejected record.
C5_Witness ==
    /\ ui = Report("issue", "No verified unissued record found.")
    /\ \E i \in 1..Len(registry) : registry[i].mrv_status = "rejected"

\* C6: an upload-and-verify action on a file that cannot be decoded ends with
\* an error and inserts no record.
C6_UndecodableStoresNothing ==
    [][(/\ IsVerifyStep(ui'.run)
        /\ now' # now
        /\ uploaded_file' # NoFile
        /\ ~uploaded_file'.decodable)
       => /\ registry' = registry
          /\ credits' = credits
          /\ ui'.msg \in {"Failed to parse CSV", "Could not open image",
                          "uncaught exception"}]_vars

\* C6 witness: Verify & Calculate has just refused a CSV it could not parse,
\* in a store that already holds a record.
C6_Witness ==
    /\ ui = Report("verify", "Failed to parse CSV")
    /\ uploaded_file = CorruptCsv
    /\ registry # <<>>

\* C7: an upload-and-verify action that runs to its end on a decodable file
\* adds exactly one record, and no other step adds a record: not a re-run of
\* the page with the same file still in the uploader, not navigating, not
\* issuing a tx.
C7_OneRecordPerUpload ==
    [][LET n_added == (Len(registry') - Len(registry)) + (Len(credits') - Len(credits))
       IN  IF /\ ui'.run \in {"verify", "upload"}
              /\ now' # now
              /\ uploaded_file' # NoFile
              /\ uploaded_file'.decodable
              /\ ui'.msg # "uncaught exception"
           THEN n_added = 1
           ELSE n_added = 0]_vars


(***************************************************************************)
(* Properties of the validators and the estimator (SpecImage, SpecIot).    *)
(***************************************************************************)
Pixels(image) == image.w * image.h

\* variance(a) <= variance(b)
VarianceLeq(a, b) ==
    Variance(a).num * Variance(b).den <= Variance(b).num * Variance(a).den

\* C8: anomaly_detection_image passes exactly when the luminance variance is
\* at least 50 and the pixel count at least 10,000; and once an image fails,
\* so does every image of the same size with no more variance, and every
\* image of the same variance with no more pixels.
C8_ImagePassesIffBothThresholds ==
    img_result.called =>
        /\ img_result.result.ok <=>
               /\ Variance(img).num >= 50 * Variance(img).den
               /\ Pixels(img) >= 10000
        /\ ~img_result.result.ok =>
               \A other \in Images :
                   /\ (/\ other.w = img.w /\ other.h = img.h
                       /\ VarianceLeq(other, img))
                      => ~anomaly_detection_image(other).ok
                   /\ (/\ VarianceLeq(other, img) /\ VarianceLeq(img, other)
                       /\ Pixels(other) <= Pixels(img))
                      => ~anomaly_detection_image(other).ok

\* C8 witness: an image of variance exactly 50 on 10,200 pixels has passed.
C8_Witness ==
    /\ img_result.called
    /\ img_result.result.ok
    /\ Variance(img).num = 50 * Variance(img).den
    /\ Pixels(img) = 10200

\* The series the table had before readings were appended to it.
BaseSeries == DropNa(SubSeq(df.value, 1, Len(df.value) - Len(added)))

\* A tight series of at least 30 readings and more than 2 distinct values, to
\* which only readings more than 3 of its standard deviations from its mean
\* have been appended.
OutliersOnTightSeries ==
    /\ df.has_value /\ df.numeric
    /\ Len(BaseSeries) >= 30
    /\ NUnique(BaseSeries) > 2
    /\ \A i \in 1..Len(BaseSeries) : ~IsAnomaly(BaseSeries[i], BaseSeries)
    /\ \A i \in 1..Len(added) : IsAnomaly(added[i], BaseSeries)

\* C9 as stated: one outlier appended to a tight series of at least 30
\* readings leaves the verdict at pass; outliers appended in a number
\* exceeding the budget max(1, n//10) turn it to fail.
C9_OutliersBeyondBudgetFail ==
    (iot_result.called /\ OutliersOnTightSeries) =>
        /\ Len(added) = 1 => iot_result.result.ok
        /\ Len(added) > Max(1, Len(DropNa(df.value)) \div 10) => ~iot_result.result.ok

\* C9 amended: one outlier appended to a tight series of at least 30 readings
\* leaves the verdict at pass; a series of at least 30 readings fails when the
\* readings with |z| > 3 under the mean and the sample standard deviation of
\* the whole series, the appended ones included, number more than
\* max(1, n//10).
C9_AnomaliesBeyondBudgetFail ==
    (iot_result.called /\ df.has_value /\ df.numeric) =>
        LET vals == DropNa(df.value)
        IN  /\ (OutliersOnTightSeries /\ Len(added) = 1) => iot_result.result.ok
            /\ (/\ Len(vals) >= 30
                /\ NUnique(vals) > 2
                /\ Cardinality({i \in 1..Len(vals) : IsAnomaly(vals[i], vals)})
                       > Max(1, Len(vals) \div 10))
               => ~iot_result.result.ok

\* C9 witness: 38 readings, four of them with |z| > 3 in the series itself,
\* against a budget of three: rejected.
C9_Witness ==
    /\ iot_result.called
    /\ OutliersOnTightSeries
    /\ Len(added) = 4
    /\ Anomalies(DropNa(df.value)) = 4
    /\ ~iot_result.result.ok

\* The duration the claim states, in seconds: max - min of the timestamps when
\* the column is present and parseable, one hour when it is absent or
\* unparseable, and never less than one hour.
ClaimedSeconds(ts) ==
    IF ts.kind = "parsed" /\ DropNa(ts.times) # <<>>
    THEN Max(SeqMax(DropNa(ts.times)) - SeqMin(DropNa(ts.times)), 3600)
    ELSE 3600

\* C10: for every table with a numeric value column holding a reading,
\* calculate_credits_iot returns max(1, floor(mean * duration_hours / 10)),
\* an integer that is at least 1.
C10_CreditsFormula ==
    (/\ credit_result.called
     /\ df.has_value /\ df.numeric
     /\ DropNa(df.value) # <<>>)
    => /\ ~credit_result.result.raised
       /\ credit_result.result.credits >= 1
       /\ credit_result.result.credits =
              Max(1, (SumSeq(DropNa(df.value)) * ClaimedSeconds(df.ts))
                         \div (Len(DropNa(df.value)) * 36000))


\* The ids of the registry rows that are 'verified' with a null or empty hash.
VerifiedUnissuedIds(reg) ==
    {reg[i].id : i \in {k \in 1..Len(reg) :
                          reg[k].mrv_status = "verified" /\ ~HasHash(reg[k])}}

\* C11: with a verified, unissued record in the store, one issue action gives
\* a hash to exactly one record, the one of greatest id among them, and leaves
\* every other row and every other field of that row as it was; a rejected
\* record never has a ledger hash.
C11_IssueSetsLatestOnly ==
    [][/\ (/\ ui'.run = "issue"
           /\ now' # now
           /\ VerifiedUnissuedIds(registry) # {})
          => /\ Len(registry') = Len(registry)
             /\ \A i \in 1..Len(registry) :
                    IF \A other \in VerifiedUnissuedIds(registry) : other <= registry[i].id
                       /\ registry[i].id \in VerifiedUnissuedIds(registry)
                    THEN /\ HasHash(registry'[i])
                         /\ registry'[i] = [registry[i] EXCEPT
                                                !.tx_hash = registry'[i].tx_hash]
                    ELSE registry'[i] = registry[i]
       /\ \A i \in 1..Len(registry') :
              registry'[i].mrv_status = "rejected" => ~HasHash(registry'[i])]_vars

\* C11 witness: of two verified, unissued records the issue action has just
\* given a hash to the later one; the earlier one is still unissued.
C11_Witness ==
    /\ ui = Report("issue", "Simulated tx issued")
    /\ \E i, j \in 1..Len(registry) :
           /\ i < j
           /\ registry[i].mrv_status = "verified" /\ ~HasHash(registry[i])
           /\ registry[j].mrv_status = "verified" /\ HasHash(registry[j])
           /\ \A k \in (j + 1)..Len(registry) : registry[k].mrv_status = "rejected"

====
